---- MODULE Spec2Model ----
(***************************************************************************)
(* Model of the keboom_script utilities.                                   *)
(*                                                                         *)
(*  - group_tasks.py : get_model_series (ordered regex rule table, first    *)
(*    match wins, three ways of deriving the category) and                  *)
(*    group_tasks_by_series (bucketing the lines of a file by category).    *)
(*  - format_log.py  : parse_log_line, format_entry_to_table and the        *)
(*    city_sum aggregation of main.                                         *)
(*                                                                         *)
(* Text is modelled at character level: a Python str is a sequence of       *)
(* one-character strings, and the regular expressions of the rule table     *)
(* are run by a backtracking matcher with the semantics of re.search        *)
(* (leftmost start, alternatives in order, greedy +, lookbehind and         *)
(* lookahead).                                                              *)
(***************************************************************************)
EXTENDS Integers, Sequences, FiniteSets, TLC

VARIABLES
    \* ---- group_tasks.py ----
    patterns,     \* the rule list built by get_model_series (local `patterns`)
    task_name,    \* argument of the latest get_model_series call
    series,       \* value returned by the latest get_model_series call
    calls,        \* every get_model_series call so far: <<task_name, series>>
    lines,        \* the lines of input_file read so far, raw
    task_groups,  \* the defaultdict(list) of group_tasks_by_series
    pc,           \* position of the group_tasks.py code
    \* ---- format_log.py ----
    log_lines,    \* the lines of rawLog.txt read so far, raw
    all_tables,   \* main's all_tables
    city_sum,     \* main's city_sum
    log_pc        \* position of format_log.main

vars == <<patterns, task_name, series, calls, lines, task_groups, pc,
          log_lines, all_tables, city_sum, log_pc>>

group_vars == <<patterns, task_name, series, calls, lines, task_groups, pc>>
log_vars == <<log_lines, all_tables, city_sum, log_pc>>

----------------------------------------------------------------------------
(* Python values *)

\* Python's None: a one-element sequence that is no character string
None == <<"None">>

\* truth value of `if x:` for x a str or None
Truthy(x) == x # None /\ x # <<>>

Digit == {"0", "1", "2", "3", "4", "5", "6", "7", "8", "9"}

\* the characters \s and str.strip() treat as whitespace (those of the model)
Whitespace == {" ", "\t", "\n"}

\* s[i:j] with 1-based inclusive bounds
Slice(s, i, j) == [k \in 1..(j - i + 1) |-> s[i + k - 1]]

----------------------------------------------------------------------------
(* Regular expressions: an expression is a sequence of alternatives, an     *)
(* alternative a sequence of elements.                                      *)

Chr(cs) == [kind |-> "chr", cs |-> cs]          \* one character of cs
Plus(cs) == [kind |-> "plus", cs |-> cs]        \* [cs]+ , greedy
Star(cs) == [kind |-> "star", cs |-> cs]        \* [cs]* , greedy
Lazy(cs) == [kind |-> "lazy", cs |-> cs]        \* [cs]*? , lazy
Ahead(cs) == [kind |-> "ahead", cs |-> cs]      \* (?=[cs])
Behind(css) == [kind |-> "behind", cs |-> css]  \* (?<=...) fixed width
Open == [kind |-> "open", cs |-> {}]            \* start of the named group

Lit(str) == [k \in 1..Len(str) |-> Chr({str[k]})]

\* end 0 stands for "no match"
NoMatch == [end |-> 0, group |-> 0]

\* The match of elements k.. of alternative p at position i of s, found in
\* the order a backtracking matcher tries: a greedy repetition first takes
\* one more character and gives it back only when the rest fails, a lazy one
\* first tries the rest.  end is the position after the match, group the
\* position the named group starts at.
RECURSIVE MatchFrom(_, _, _, _)
MatchFrom(p, k, s, i) ==
    IF k > Len(p) THEN [end |-> i, group |-> 0]
    ELSE LET e == p[k]
             here == i <= Len(s) /\ s[i] \in e.cs
         IN
      CASE e.kind = "chr" ->
             IF here THEN MatchFrom(p, k + 1, s, i + 1) ELSE NoMatch
        [] e.kind = "plus" ->
             IF here
             THEN LET more == MatchFrom(p, k, s, i + 1) IN
                  IF more # NoMatch THEN more
                  ELSE MatchFrom(p, k + 1, s, i + 1)
             ELSE NoMatch
        [] e.kind = "star" ->
             LET more == IF here THEN MatchFrom(p, k, s, i + 1) ELSE NoMatch
             IN IF more # NoMatch THEN more ELSE MatchFrom(p, k + 1, s, i)
        [] e.kind = "lazy" ->
             LET rest == MatchFrom(p, k + 1, s, i) IN
             IF rest # NoMatch THEN rest
             ELSE IF here THEN MatchFrom(p, k, s, i + 1) ELSE NoMatch
        [] e.kind = "ahead" ->
             IF here THEN MatchFrom(p, k + 1, s, i) ELSE NoMatch
        [] e.kind = "behind" ->
             LET w == Len(e.cs) IN
             IF i - w >= 1 /\ \A t \in 1..w : s[i - w + t - 1] \in e.cs[t]
             THEN MatchFrom(p, k + 1, s, i) ELSE NoMatch
        [] e.kind = "open" ->
             LET rest == MatchFrom(p, k + 1, s, i) IN
             IF rest # NoMatch THEN [rest EXCEPT !.group = i] ELSE NoMatch

\* match of an expression at position i: the first alternative that matches
RECURSIVE MatchAlts(_, _, _, _)
MatchAlts(alts, a, s, i) ==
    IF a > Len(alts) THEN NoMatch
    ELSE LET m == MatchFrom(alts[a], 1, s, i) IN
         IF m # NoMatch THEN m ELSE MatchAlts(alts, a + 1, s, i)

\* the None that pattern.search returns when nothing matches
MatchNone == [start |-> 0, end |-> 0]

\* pattern.search(s): the match at the leftmost position that has one, as
\* [start, end)
RECURSIVE SearchFrom(_, _, _)
SearchFrom(alts, s, i) ==
    IF i > Len(s) + 1 THEN MatchNone
    ELSE LET m == MatchAlts(alts, 1, s, i) IN
         IF m # NoMatch THEN [start |-> i, end |-> m.end]
         ELSE SearchFrom(alts, s, i + 1)

search(rule, s) == SearchFrom(rule.alts, s, 1)

\* fault: the slice of the match loses its last character
group0_short(m, s) == Slice(s, m.start, m.end - 2)

\* match.group(0)
group0(m, s) == Slice(s, m.start, m.end - 1)

----------------------------------------------------------------------------
(* group_tasks.py: the rule table of get_model_series *)

full_match == <<"f", "u", "l", "l", "_", "m", "a", "t", "c", "h">>
static == <<"s", "t", "a", "t", "i", "c">>
Uncategorized ==
    <<"U", "n", "c", "a", "t", "e", "g", "o", "r", "i", "z", "e", "d">>

PatternList ==
    << \* 1: r'yx_gzy_jj', 'gzy'
    [alts |-> <<Lit(<<"y", "x", "_", "g", "z", "y", "_", "j", "j">>)>>,
     pattern |-> <<"y", "x", "_", "g", "z", "y", "_", "j", "j">>,
     match_type |-> <<"g", "z", "y">>],
       \* 2: r'xm_jj', 'xm_jj'
    [alts |-> <<Lit(<<"x", "m", "_", "j", "j">>)>>,
     pattern |-> <<"x", "m", "_", "j", "j">>,
     match_type |-> <<"x", "m", "_", "j", "j">>],
       \* 3: r'jj_A\d+', 'jj_A'
    [alts |-> <<Lit(<<"j", "j", "_", "A">>) \o <<Plus(Digit)>>>>,
     pattern |-> <<"j", "j", "_", "A", "\\", "d", "+">>,
     match_type |-> <<"j", "j", "_", "A">>],
       \* 4: r'xm_jj_Y\d+_072[5-7]', 'jj_Y'
    [alts |-> <<Lit(<<"x", "m", "_", "j", "j", "_", "Y">>) \o <<Plus(Digit)>> \o Lit(<<"_", "0", "7", "2">>) \o <<Chr({"5", "6", "7"})>>>>,
     pattern |-> <<"x", "m", "_", "j", "j", "_", "Y", "\\", "d", "+", "_", "0", "7", "2", "[", "5", "-", "7", "]">>,
     match_type |-> <<"j", "j", "_", "Y">>],
       \* 5: r'xm_jj_jy_07(16|24)', 'jj_jy'
    [alts |-> <<Lit(<<"x", "m", "_", "j", "j", "_", "j", "y", "_", "0", "7">>) \o Lit(<<"1", "6">>), Lit(<<"x", "m", "_", "j", "j", "_", "j", "y", "_", "0", "7">>) \o Lit(<<"2", "4">>)>>,
     pattern |-> <<"x", "m", "_", "j", "j", "_", "j", "y", "_", "0", "7", "(", "1", "6", "|", "2", "4", ")">>,
     match_type |-> <<"j", "j", "_", "j", "y">>],
       \* 6: r'lt_LKltjja[\d-]+', 'full_match'
    [alts |-> <<Lit(<<"l", "t", "_", "L", "K", "l", "t", "j", "j", "a">>) \o <<Plus(Digit \cup {"-"})>>>>,
     pattern |-> <<"l", "t", "_", "L", "K", "l", "t", "j", "j", "a", "[", "\\", "d", "-", "]", "+">>,
     match_type |-> full_match],
       \* 7: r'lt_LXjja[\d-]+', 'full_match'
    [alts |-> <<Lit(<<"l", "t", "_", "L", "X", "j", "j", "a">>) \o <<Plus(Digit \cup {"-"})>>>>,
     pattern |-> <<"l", "t", "_", "L", "X", "j", "j", "a", "[", "\\", "d", "-", "]", "+">>,
     match_type |-> full_match],
       \* 8: r'lt_LKjja[\d-]+', 'full_match'
    [alts |-> <<Lit(<<"l", "t", "_", "L", "K", "j", "j", "a">>) \o <<Plus(Digit \cup {"-"})>>>>,
     pattern |-> <<"l", "t", "_", "L", "K", "j", "j", "a", "[", "\\", "d", "-", "]", "+">>,
     match_type |-> full_match],
       \* 9: r'lt_jja[\d.-]+', 'full_match'
    [alts |-> <<Lit(<<"l", "t", "_", "j", "j", "a">>) \o <<Plus(Digit \cup {".", "-"})>>>>,
     pattern |-> <<"l", "t", "_", "j", "j", "a", "[", "\\", "d", ".", "-", "]", "+">>,
     match_type |-> full_match],
       \* 10: r'lt_ltjja[\d-]+', 'full_match'
    [alts |-> <<Lit(<<"l", "t", "_", "l", "t", "j", "j", "a">>) \o <<Plus(Digit \cup {"-"})>>>>,
     pattern |-> <<"l", "t", "_", "l", "t", "j", "j", "a", "[", "\\", "d", "-", "]", "+">>,
     match_type |-> full_match],
       \* 11: r'LKXjja[\d-]+', 'full_match'
    [alts |-> <<Lit(<<"L", "K", "X", "j", "j", "a">>) \o <<Plus(Digit \cup {"-"})>>>>,
     pattern |-> <<"L", "K", "X", "j", "j", "a", "[", "\\", "d", "-", "]", "+">>,
     match_type |-> full_match],
       \* 12: r'LKjja[\d-]+', 'full_match'
    [alts |-> <<Lit(<<"L", "K", "j", "j", "a">>) \o <<Plus(Digit \cup {"-"})>>>>,
     pattern |-> <<"L", "K", "j", "j", "a", "[", "\\", "d", "-", "]", "+">>,
     match_type |-> full_match],
       \* 13: r'Lk12a20-1', 'full_match'
    [alts |-> <<Lit(<<"L", "k", "1", "2", "a", "2", "0", "-", "1">>)>>,
     pattern |-> <<"L", "k", "1", "2", "a", "2", "0", "-", "1">>,
     match_type |-> full_match],
       \* 14: r'jja[\d-]+', 'full_match'
    [alts |-> <<Lit(<<"j", "j", "a">>) \o <<Plus(Digit \cup {"-"})>>>>,
     pattern |-> <<"j", "j", "a", "[", "\\", "d", "-", "]", "+">>,
     match_type |-> full_match],
       \* 15: r'LXda\d+', 'full_match'
    [alts |-> <<Lit(<<"L", "X", "d", "a">>) \o <<Plus(Digit)>>>>,
     pattern |-> <<"L", "X", "d", "a", "\\", "d", "+">>,
     match_type |-> full_match],
       \* 16: r'LXd\d+', 'full_match'
    [alts |-> <<Lit(<<"L", "X", "d">>) \o <<Plus(Digit)>>>>,
     pattern |-> <<"L", "X", "d", "\\", "d", "+">>,
     match_type |-> full_match],
       \* 17: r'x\d+', 'full_match'
    [alts |-> <<Lit(<<"x">>) \o <<Plus(Digit)>>>>,
     pattern |-> <<"x", "\\", "d", "+">>,
     match_type |-> full_match],
       \* 18: r'u\d+', 'full_match'
    [alts |-> <<Lit(<<"u">>) \o <<Plus(Digit)>>>>,
     pattern |-> <<"u", "\\", "d", "+">>,
     match_type |-> full_match],
       \* 19: r'rt[_-]dj', 'rt_dj'
    [alts |-> <<Lit(<<"r", "t">>) \o <<Chr({"_", "-"})>> \o Lit(<<"d", "j">>)>>,
     pattern |-> <<"r", "t", "[", "_", "-", "]", "d", "j">>,
     match_type |-> <<"r", "t", "_", "d", "j">>],
       \* 20: r'rz_dj', 'static'
    [alts |-> <<Lit(<<"r", "z", "_", "d", "j">>)>>,
     pattern |-> <<"r", "z", "_", "d", "j">>,
     match_type |-> static],
       \* 21: r'rz[_-]bc', 'rz_bc'
    [alts |-> <<Lit(<<"r", "z">>) \o <<Chr({"_", "-"})>> \o Lit(<<"b", "c">>)>>,
     pattern |-> <<"r", "z", "[", "_", "-", "]", "b", "c">>,
     match_type |-> <<"r", "z", "_", "b", "c">>],
       \* 22: r'apbc\d+', 'full_match'
    [alts |-> <<Lit(<<"a", "p", "b", "c">>) \o <<Plus(Digit)>>>>,
     pattern |-> <<"a", "p", "b", "c", "\\", "d", "+">>,
     match_type |-> full_match],
       \* 23: r'(?<=bc[_-])v\d+', 'full_match'
    [alts |-> <<<<Behind(<<{"b"}, {"c"}, {"_", "-"}>>)>> \o Lit(<<"v">>) \o <<Plus(Digit)>>>>,
     pattern |-> <<"(", "?", "<", "=", "b", "c", "[", "_", "-", "]", ")", "v", "\\", "d", "+">>,
     match_type |-> full_match],
       \* 24: r'v20(?=[-_]|\s)', 'v20'
    [alts |-> <<Lit(<<"v", "2", "0">>) \o <<Ahead({"-", "_"} \cup Whitespace)>>>>,
     pattern |-> <<"v", "2", "0", "(", "?", "=", "[", "-", "_", "]", "|", "\\", "s", ")">>,
     match_type |-> <<"v", "2", "0">>],
       \* 25: r'\d{4}-bc', 'bc'
    [alts |-> <<<<Chr(Digit)>> \o <<Chr(Digit)>> \o <<Chr(Digit)>> \o <<Chr(Digit)>> \o Lit(<<"-", "b", "c">>)>>,
     pattern |-> <<"\\", "d", "{", "4", "}", "-", "b", "c">>,
     match_type |-> <<"b", "c">>],
       \* 26: r'bc0\d+', 'full_match'
    [alts |-> <<Lit(<<"b", "c", "0">>) \o <<Plus(Digit)>>>>,
     pattern |-> <<"b", "c", "0", "\\", "d", "+">>,
     match_type |-> full_match],
       \* 27: r'rt_bc', 'static'
    [alts |-> <<Lit(<<"r", "t", "_", "b", "c">>)>>,
     pattern |-> <<"r", "t", "_", "b", "c">>,
     match_type |-> static],
       \* 28: r'bc(?=_)', 'static'
    [alts |-> <<Lit(<<"b", "c">>) \o <<Ahead({"_"})>>>>,
     pattern |-> <<"b", "c", "(", "?", "=", "_", ")">>,
     match_type |-> static] >>

\* fault: no branch for 'static', so that the tag itself is returned
Derive_no_static(rule, m, name) ==
    IF rule.match_type = full_match THEN group0(m, name)
    ELSE rule.match_type

\* the value get_model_series returns once rule `rule` has matched with m
Derive(rule, m, name) ==
    IF rule.match_type = full_match THEN group0(m, name)
    ELSE IF rule.match_type = static THEN rule.pattern
    ELSE rule.match_type

\* fault: the loop does not stop at the first match, the last match decides
RECURSIVE Scan_last_match(_, _, _)
Scan_last_match(pats, k, name) ==
    IF k > Len(pats) THEN None
    ELSE LET later == Scan_last_match(pats, k + 1, name)
             m == search(pats[k], name)
         IN IF later # None THEN later
            ELSE IF m # MatchNone THEN Derive(pats[k], m, name)
            ELSE None

\* the for loop of get_model_series from rule k on
RECURSIVE Scan(_, _, _)
Scan(pats, k, name) ==
    IF k > Len(pats) THEN None
    ELSE LET m == search(pats[k], name) IN
         IF m # MatchNone THEN Derive(pats[k], m, name)
         ELSE Scan(pats, k + 1, name)

\* fault: the result of the previous call is kept and handed out again when
\* the next task name has the same length
get_model_series_stale(name) ==
    IF calls # <<>> /\ Len(calls[Len(calls)][1]) = Len(name)
    THEN calls[Len(calls)][2]
    ELSE Scan(PatternList, 1, name)

\* get_model_series: build the rule list, run the loop
get_model_series(name) == Scan(PatternList, 1, name)

----------------------------------------------------------------------------
(* Task names the calls are made with, put together from name fragments *)

Fragments == {
    <<"y", "x", "_", "g", "z", "y", "_", "j", "j">>,
    <<"x", "m", "_", "j", "j">>,
    <<"_", "A", "0", "1">>,
    <<"_", "Y", "1", "2", "_", "0", "7", "2", "6">>,
    <<"_", "j", "y", "_", "0", "7", "1", "6">>,
    <<"_", "j", "y", "_", "0", "7", "2", "4">>,
    <<"l", "t", "_", "L", "K", "l", "t">>,
    <<"l", "t", "_", "L", "X">>,
    <<"l", "t", "_", "L", "K">>,
    <<"l", "t", "_">>,
    <<"l", "t", "_", "l", "t">>,
    <<"L", "K", "X">>,
    <<"L", "K">>,
    <<"L", "k", "1", "2", "a", "2", "0", "-", "1">>,
    <<"j", "j", "a", "2", "0", "-", "3">>,
    <<"j", "j", "a", "2", ".", "1">>,
    <<"L", "X", "d", "a", "1", "1", "-", "1">>,
    <<"L", "X", "d", "1", "0", "-", "2">>,
    <<"x", "2", "1", "0">>,
    <<"u", "2", "6", "0">>,
    <<"r", "t", "-", "d", "j">>,
    <<"r", "z", "_", "d", "j">>,
    <<"_", "0", "4", "2", "0">>,
    <<"r", "z", "-", "b", "c">>,
    <<"a", "p", "b", "c", "3", "3">>,
    <<"b", "c", "-", "v", "2", "2">>,
    <<"v", "2", "0">>,
    <<"0", "6", "1", "1", "-", "b", "c">>,
    <<"b", "c", "0", "1">>,
    <<"r", "t", "_", "b", "c">>,
    <<"b", "c">>,
    <<"t", "o", "t", "a", "l", "l", "y", "_", "u", "n", "r", "e", "l", "a", "t", "e", "d", "_", "n", "a", "m", "e">>,
    <<" ">>
}

\* longest task name, in characters
MaxNameLen == 24

\* a fragment, or two of them in a row
Identifiers ==
    {id \in Fragments \cup {a \o b : a, b \in Fragments} :
       Len(id) <= MaxNameLen}

----------------------------------------------------------------------------
(* A direct call of get_model_series *)

InitGroupVars ==
    /\ patterns = PatternList
    /\ task_name = None
    /\ series = None
    /\ calls = <<>>
    /\ lines = <<>>
    /\ task_groups = <<>>
    /\ pc = "start"

InitLogVars ==
    /\ log_lines = <<>>
    /\ all_tables = <<>>
    /\ city_sum = <<>>
    /\ log_pc = "start"

Init == InitGroupVars /\ InitLogVars

GetModelSeries(name) ==
    /\ pc = "start"
    /\ patterns' = PatternList
    /\ task_name' = name
    /\ series' = get_model_series(name)
    /\ calls' = Append(calls, <<name, series'>>)
    /\ pc' = "returned"
    /\ UNCHANGED <<lines, task_groups>>
    /\ UNCHANGED log_vars

NextClassify == \E name \in Identifiers : GetModelSeries(name)

SpecClassify == Init /\ [][NextClassify]_vars

----------------------------------------------------------------------------
(* group_tasks.py: group_tasks_by_series *)

\* index of the first character of s from i on that is no whitespace
RECURSIVE SkipLeft(_, _)
SkipLeft(s, i) ==
    IF i <= Len(s) /\ s[i] \in Whitespace THEN SkipLeft(s, i + 1) ELSE i

\* index of the last character of s up to j that is no whitespace
RECURSIVE SkipRight(_, _)
SkipRight(s, j) ==
    IF j >= 1 /\ s[j] \in Whitespace THEN SkipRight(s, j - 1) ELSE j

\* str.strip()
strip(s) ==
    LET i == SkipLeft(s, 1)
        j == SkipRight(s, Len(s))
    IN IF i > j THEN <<>> ELSE Slice(s, i, j)

\* fault: the value returned is used as the key unchecked
GroupKey_raw(s) == s

\* the key of task_groups a task is appended under (if series: ... else)
GroupKey(s) == IF Truthy(s) THEN s ELSE Uncategorized

\* fault: the list of the key is replaced instead of extended
AppendTo_overwrite(groups, key, name) ==
    IF key \in DOMAIN groups
    THEN [groups EXCEPT ![key] = <<name>>]
    ELSE groups @@ (key :> <<name>>)

\* task_groups[key].append(name) on a defaultdict(list)
AppendTo(groups, key, name) ==
    IF key \in DOMAIN groups
    THEN [groups EXCEPT ![key] = Append(@, name)]
    ELSE groups @@ (key :> <<name>>)

\* task names of the input file
GroupNames == {
    <<"j", "j", "a", "2", "0", "-", "3">>,
    <<"b", "c", "_", "0", "4", "2", "0">>,
    <<"t", "o", "t", "a", "l", "l", "y", "_", "u", "n", "r", "e", "l", "a", "t", "e", "d", "_", "n", "a", "m", "e">>
}

\* the lines a file is made of: a task name or nothing, padded, with its
\* line end
RawLines ==
    {n \o <<"\n">> : n \in GroupNames \cup {<<>>}}
    \cup {<<" ">> \o n \o <<" ", "\n">> : n \in {<<>>, <<"j", "j", "a", "2", "0", "-", "3">>}}

\* longest input file, in lines
MaxLines == 4

\* open(input_file) succeeds
OpenFile ==
    /\ pc = "start"
    /\ pc' = "reading"
    /\ UNCHANGED <<patterns, task_name, series, calls, lines, task_groups>>
    /\ UNCHANGED log_vars

\* open(input_file) raises FileNotFoundError: the function returns None
FileNotFound ==
    /\ pc = "start"
    /\ pc' = "notfound"
    /\ task_groups' = None
    /\ UNCHANGED <<patterns, task_name, series, calls, lines>>
    /\ UNCHANGED log_vars

\* one iteration of `for line in f` on a blank line
ReadBlankLine(line) ==
    /\ pc = "reading"
    /\ Len(lines) < MaxLines
    /\ ~Truthy(strip(line))
    /\ lines' = Append(lines, line)
    /\ UNCHANGED <<patterns, task_name, series, calls, task_groups, pc>>
    /\ UNCHANGED log_vars

\* one iteration of `for line in f` on a task line
ReadTaskLine(line) ==
    /\ pc = "reading"
    /\ Len(lines) < MaxLines
    /\ Truthy(strip(line))
    /\ lines' = Append(lines, line)
    /\ task_name' = strip(line)
    /\ patterns' = PatternList
    /\ series' = get_model_series(task_name')
    /\ calls' = Append(calls, <<task_name', series'>>)
    /\ task_groups' = AppendTo(task_groups, GroupKey(series'), task_name')
    /\ pc' = "reading"
    /\ UNCHANGED log_vars

\* the file is exhausted: return task_groups
EndOfFile ==
    /\ pc = "reading"
    /\ pc' = "done"
    /\ UNCHANGED <<patterns, task_name, series, calls, lines, task_groups>>
    /\ UNCHANGED log_vars

NextGroup ==
    \/ OpenFile
    \/ FileNotFound
    \/ \E line \in RawLines : ReadBlankLine(line)
    \/ \E line \in RawLines : ReadTaskLine(line)
    \/ EndOfFile

SpecGroup == Init /\ [][NextGroup]_vars

----------------------------------------------------------------------------
(* format_log.py.  A log line is a sequence of symbols: the five field      *)
(* names are one symbol each, everything else is a character.               *)

\* what `.` matches: any symbol of the model but the line end
Dot == {"taskId:", "taskName:", "mobileListSize:", "areaSumCount:",
        "areaCountMap:", " ", "\t", ",", "{", "}", "=", "'", "a", "b", "t",
        "x"} \cup Digit

\* the expression of parse_log_line; the named group is areaCountMap
LineRe ==
    <<Chr({"taskId:"}), Star(Whitespace), Plus(Digit), Chr({","}),
      Star(Whitespace),
      Chr({"taskName:"}), Star(Whitespace), Lazy(Dot), Plus(Whitespace),
      Chr({"mobileListSize:"}), Star(Whitespace), Plus(Digit),
      Star(Whitespace),
      Chr({"areaSumCount:"}), Star(Whitespace), Plus(Digit),
      Star(Whitespace),
      Chr({"areaCountMap:"}), Star(Whitespace),
      Open, Chr({"{"}), Star(Dot), Chr({"}"})>>

\* first index at or after i where sep starts in s; 0 when there is none
RECURSIVE Find(_, _, _)
Find(s, sep, i) ==
    IF i + Len(sep) - 1 > Len(s) THEN 0
    ELSE IF Slice(s, i, i + Len(sep) - 1) = sep THEN i
    ELSE Find(s, sep, i + 1)

\* s.split(sep)
RECURSIVE split(_, _)
split(s, sep) ==
    LET i == Find(s, sep, 1) IN
    IF i = 0 THEN <<s>>
    ELSE <<Slice(s, 1, i - 1)>> \o split(Slice(s, i + Len(sep), Len(s)), sep)

\* a dict is the sequence of its <<key, value>> items, in insertion order
Keys(d) == {d[n][1] : n \in DOMAIN d}
Get(d, k) == LET n == CHOOSE n \in DOMAIN d : d[n][1] = k IN d[n][2]

\* d[k] = v
DictSet(d, k, v) ==
    IF k \in Keys(d)
    THEN [n \in DOMAIN d |-> IF d[n][1] = k THEN <<k, v>> ELSE d[n]]
    ELSE Append(d, <<k, v>>)

\* the loop over pairs: "key=value" gives (key.strip(), value.strip()), a
\* pair without "=" is dropped with a warning
RECURSIVE FormattedPairs(_)
FormattedPairs(pairs) ==
    IF pairs = <<>> THEN <<>>
    ELSE LET pair == Head(pairs)
             eq == Find(pair, <<"=">>, 1)
         IN (IF eq # 0
             THEN <<<<strip(Slice(pair, 1, eq - 1)),
                      strip(Slice(pair, eq + 1, Len(pair)))>>>>
             ELSE <<>>)
            \o FormattedPairs(Tail(pairs))

\* a dict display with the items in order: a later item replaces the value
\* of an equal earlier key
RECURSIVE DictOf(_, _)
DictOf(items, d) ==
    IF items = <<>> THEN d
    ELSE DictOf(Tail(items), DictSet(d, Head(items)[1], Head(items)[2]))

HasQuote(str) == \E n \in DOMAIN str : str[n] = "'"

\* ast.literal_eval of "{'k': 'v', ...}" with the fallback of the except
\* clause: a quote in a key or value (the lines of the model carry at most
\* one) leaves a string unterminated, a SyntaxError, and the map is {}
literal_eval(items) ==
    IF \E n \in DOMAIN items : HasQuote(items[n][1]) \/ HasQuote(items[n][2])
    THEN <<>>
    ELSE DictOf(items, <<>>)

\* parse_log_line; parsed = FALSE stands for the None it returns
parse_log_line(line) ==
    LET m == MatchFrom(LineRe, 1, line, 1) IN
    IF m = NoMatch THEN [parsed |-> FALSE, areaCountMap |-> <<>>]
    ELSE LET area_map_str == Slice(line, m.group, m.end - 1) IN
         IF area_map_str = <<"{", "}">>
         THEN [parsed |-> TRUE, areaCountMap |-> <<>>]
         ELSE LET processed == Slice(area_map_str, 2, Len(area_map_str) - 1)
                  pairs == split(processed, <<",", " ">>)
              IN [parsed |-> TRUE,
                  areaCountMap |-> literal_eval(FormattedPairs(pairs))]

\* int(str) succeeds (the model has digits only: no sign, no underscore)
IsInt(str) == str # <<>> /\ \A n \in DOMAIN str : str[n] \in Digit

DigitValue(c) ==
    CASE c = "0" -> 0 [] c = "1" -> 1 [] c = "2" -> 2 [] c = "3" -> 3
      [] c = "4" -> 4 [] c = "5" -> 5 [] c = "6" -> 6 [] c = "7" -> 7
      [] c = "8" -> 8 [] c = "9" -> 9

\* int(str)
RECURSIVE int(_)
int(str) ==
    IF Len(str) = 1 THEN DigitValue(str[1])
    ELSE 10 * int(SubSeq(str, 1, Len(str) - 1)) + DigitValue(str[Len(str)])

\* item put into rows, which are sorted by count descending, after every row
\* whose count is not smaller (sorted(..., reverse=True) is stable)
RECURSIVE InsertRow(_, _)
InsertRow(rows, item) ==
    IF rows = <<>> THEN <<item>>
    ELSE IF int(Head(rows)[2]) >= int(item[2])
         THEN <<Head(rows)>> \o InsertRow(Tail(rows), item)
         ELSE <<item>> \o rows

RECURSIVE SortedAreas(_, _)
SortedAreas(items, rows) ==
    IF items = <<>> THEN rows
    ELSE SortedAreas(Tail(items), InsertRow(rows, Head(items)))

\* format_entry_to_table: int(item[1]) raises ValueError on a count that is
\* no number; otherwise the table, of which the model keeps the area rows
format_entry_to_table(entry) ==
    LET area_map == entry.areaCountMap IN
    IF \E n \in DOMAIN area_map : ~IsInt(area_map[n][2])
    THEN [raised |-> TRUE, rows |-> <<>>]
    ELSE [raised |-> FALSE, rows |-> SortedAreas(area_map, <<>>)]

\* fault: the count is assigned where it should be added
RECURSIVE AddCities_assign(_, _)
AddCities_assign(sum, items) ==
    IF items = <<>> THEN sum
    ELSE LET city == Head(items)[1]
             count == Head(items)[2]
         IN AddCities_assign(IF city \in DOMAIN sum
                             THEN [sum EXCEPT ![city] = int(count)]
                             ELSE sum @@ (city :> int(count)),
                             Tail(items))

\* the loop over parsed_data['areaCountMap'].items() that adds to city_sum
RECURSIVE AddCities(_, _)
AddCities(sum, items) ==
    IF items = <<>> THEN sum
    ELSE LET city == Head(items)[1]
             count == Head(items)[2]
         IN AddCities(IF city \in DOMAIN sum
                      THEN [sum EXCEPT ![city] = @ + int(count)]
                      ELSE sum @@ (city :> int(count)),
                      Tail(items))

\* the lines rawLog.txt is made of
LogLines == {
    <<"taskId:", " ", "7", ",", " ", "taskName:", " ", "t", " ", "mobileListSize:", " ", "3", " ", "areaSumCount:", " ", "5", " ", "areaCountMap:", " ", "{", "}", "\n">>,
    <<"taskId:", " ", "7", ",", " ", "taskName:", " ", "t", " ", "mobileListSize:", " ", "3", " ", "areaSumCount:", " ", "5", " ", "areaCountMap:", " ", "{", "a", "=", "1", "}", "\n">>,
    <<"taskId:", " ", "7", ",", " ", "taskName:", " ", "t", " ", "mobileListSize:", " ", "3", " ", "areaSumCount:", " ", "5", " ", "areaCountMap:", " ", "{", "a", "=", "2", ",", " ", "b", "=", "1", "0", "}", "\n">>,
    <<"taskId:", " ", "7", ",", " ", "taskName:", " ", "t", " ", "mobileListSize:", " ", "3", " ", "areaSumCount:", " ", "5", " ", "areaCountMap:", " ", "{", "a", "=", "1", ",", " ", "a", "=", "2", "}", "\n">>,
    <<"taskId:", " ", "7", ",", " ", "taskName:", " ", "t", " ", "mobileListSize:", " ", "3", " ", "areaSumCount:", " ", "5", " ", "areaCountMap:", " ", "{", "a", "=", "x", "}", "\n">>,
    <<"taskId:", " ", "7", ",", " ", "taskName:", " ", "t", " ", "mobileListSize:", " ", "3", " ", "areaSumCount:", " ", "5", " ", "areaCountMap:", " ", "{", "a", ",", " ", "b", "=", "1", "}", "\n">>,
    <<"taskId:", " ", "7", ",", " ", "taskName:", " ", "t", " ", "mobileListSize:", " ", "3", " ", "areaSumCount:", " ", "5", " ", "areaCountMap:", " ", "{", "a", "=", "'", "1", "}", "\n">>,
    <<" ", "taskId:", "1", "2", ",", "taskName:", "t", " ", "t", "\t", "mobileListSize:", "3", "areaSumCount:", "5", "areaCountMap:", "{", "b", "=", "2", ",", " ", "a", "=", "3", "}", " ", "\n">>,
    <<"taskId:", " ", "7", ",", " ", "taskName:", " ", "t", "mobileListSize:", " ", "3", " ", "areaSumCount:", " ", "5", " ", "areaCountMap:", " ", "{", "a", "=", "1", "}", "\n">>,
    <<"\n">>,
    <<" ", "\t", "\n">>
}

\* longest rawLog.txt, in lines
MaxLogLines == 3

OpenLog ==
    /\ log_pc = "start"
    /\ log_pc' = "reading"
    /\ UNCHANGED <<log_lines, all_tables, city_sum>>
    /\ UNCHANGED group_vars

\* FileNotFoundError: main returns without writing
LogNotFound ==
    /\ log_pc = "start"
    /\ log_pc' = "notfound"
    /\ UNCHANGED <<log_lines, all_tables, city_sum>>
    /\ UNCHANGED group_vars

\* an iteration on a blank line: continue
ReadBlankLog(raw) ==
    /\ log_pc = "reading"
    /\ Len(log_lines) < MaxLogLines
    /\ ~Truthy(strip(raw))
    /\ log_lines' = Append(log_lines, raw)
    /\ UNCHANGED <<all_tables, city_sum, log_pc>>
    /\ UNCHANGED group_vars

\* an iteration on a line parse_log_line returns None for
ReadUnparsed(raw) ==
    /\ log_pc = "reading"
    /\ Len(log_lines) < MaxLogLines
    /\ Truthy(strip(raw))
    /\ ~parse_log_line(strip(raw)).parsed
    /\ log_lines' = Append(log_lines, raw)
    /\ UNCHANGED <<all_tables, city_sum, log_pc>>
    /\ UNCHANGED group_vars

\* an iteration on a line that parses
ReadRecord(raw) ==
    /\ log_pc = "reading"
    /\ Len(log_lines) < MaxLogLines
    /\ Truthy(strip(raw))
    /\ LET parsed_data == parse_log_line(strip(raw))
           table == format_entry_to_table(parsed_data)
       IN /\ parsed_data.parsed
          /\ log_lines' = Append(log_lines, raw)
          /\ IF table.raised
             THEN \* ValueError is not caught: main ends with a traceback
                  /\ log_pc' = "crashed"
                  /\ UNCHANGED <<all_tables, city_sum>>
             ELSE /\ all_tables' = Append(all_tables, table.rows)
                  /\ city_sum' = AddCities(city_sum, parsed_data.areaCountMap)
                  /\ log_pc' = "reading"
    /\ UNCHANGED group_vars

\* the file is exhausted: city_sum is sorted and the output written
WriteOutput ==
    /\ log_pc = "reading"
    /\ log_pc' = "done"
    /\ UNCHANGED <<log_lines, all_tables, city_sum>>
    /\ UNCHANGED group_vars

NextLog ==
    \/ OpenLog
    \/ LogNotFound
    \/ \E raw \in LogLines : ReadBlankLog(raw)
    \/ \E raw \in LogLines : ReadUnparsed(raw)
    \/ \E raw \in LogLines : ReadRecord(raw)
    \/ WriteOutput

SpecLog == Init /\ [][NextLog]_vars

----------------------------------------------------------------------------
(* Properties of get_model_series *)

Rules == 1..Len(PatternList)

\* the rules whose pattern is found somewhere in name
MatchSet(name) == {k \in Rules : search(PatternList[k], name) # MatchNone}

\* the lowest-indexed rule whose pattern is found in name; 0 when there is
\* none (the match set is bound once, so that it is computed once)
Least(ms) == IF ms = {} THEN 0 ELSE CHOOSE i \in ms : \A j \in ms : i <= j
FirstRule(name) == CHOOSE i \in {Least(ms) : ms \in {MatchSet(name)}} : TRUE

\* a call of get_model_series has returned
Returned == task_name # None

\* the category rule k gives name
CategoryOf(k, name) ==
    LET rule == PatternList[k] IN
    CASE rule.match_type = full_match ->
           LET m == search(rule, name) IN Slice(name, m.start, m.end - 1)
      [] rule.match_type = static -> rule.pattern
      [] OTHER -> rule.match_type

\* C1: the value returned is the category of the lowest-indexed rule whose
\* pattern is found in the task name, wherever the matches lie.
C1_FirstMatchWins ==
    Returned =>
      \A ms \in {MatchSet(task_name)} : \A i \in ms :
        (\A j \in ms : i <= j) => series = CategoryOf(i, task_name)

\* C1 witness: two rules with different categories match, the higher-indexed
\* one earlier in the text and longer, and the lower-indexed one decided.
C1_Witness ==
    /\ Returned
    /\ \E i \in {FirstRule(task_name)} : \E j \in MatchSet(task_name) :
         LET mi == search(PatternList[i], task_name)
             mj == search(PatternList[j], task_name)
         IN /\ i < j
            /\ mj.start < mi.start
            /\ mj.end - mj.start > mi.end - mi.start
            /\ CategoryOf(i, task_name) # CategoryOf(j, task_name)
            /\ series = CategoryOf(i, task_name)

\* C2: a task name with a match of the date-qualified Y-series pattern
\* (xm_jj_Y<digits>_0725/_0726/_0727) is classified as "jj_Y".
C2_DateQualifiedY ==
    Returned =>
      \A k \in MatchSet(task_name) :
        PatternList[k].match_type = <<"j", "j", "_", "Y">> => series = <<"j", "j", "_", "Y">>

\* C3 as stated: a task name no rule matches is classified as the string
\* "Uncategorized" by get_model_series.
C3_ReturnsUncategorized ==
    (Returned /\ MatchSet(task_name) = {}) => series = Uncategorized

\* rule j is strictly more specific than rule i: every task name it matches
\* is matched by rule i as well, and not the other way round
MoreSpecific(j, i) ==
    /\ \A id \in Identifiers :
         j \in MatchSet(id) => search(PatternList[i], id) # MatchNone
    /\ \E id \in Identifiers : i \in MatchSet(id) /\ j \notin MatchSet(id)

\* C4: of two rules that match the same task name, the more specific one is
\* listed first, so the rule that decides is never more general than a later
\* rule that matches too.
C4_SpecificBeforeGeneral ==
    Returned =>
      \A i \in {FirstRule(task_name)} :
        \A j \in MatchSet(task_name) : i < j => ~MoreSpecific(j, i)

\* the last element of the pattern is a greedy repetition
EndsWithPlus(alt) == alt[Len(alt)].kind = "plus"

\* C5: when the first matching rule is a full_match rule, the value returned
\* is the contiguous piece of the task name the pattern matched: it starts at
\* the leftmost position the pattern matches at and runs through every
\* trailing character the pattern admits; "jja20-3" gives "jja20-3".
C5_FullMatchSubstring ==
    Returned =>
      /\ \A i \in {FirstRule(task_name)} :
         (i # 0 /\ PatternList[i].match_type = full_match)
           => \E a \in 1..Len(task_name) : \E b \in a..Len(task_name) :
                LET alts == PatternList[i].alts IN
                /\ series = Slice(task_name, a, b)
                /\ MatchAlts(alts, 1, task_name, a).end = b + 1
                /\ \A a2 \in 1..(a - 1) :
                     MatchAlts(alts, 1, task_name, a2) = NoMatch
                /\ EndsWithPlus(alts[1]) =>
                     (b = Len(task_name)
                        \/ task_name[b + 1] \notin alts[1][Len(alts[1])].cs)
      /\ task_name = <<"j", "j", "a", "2", "0", "-", "3">> => series = <<"j", "j", "a", "2", "0", "-", "3">>

\* C5 witness: a full_match rule decided a task name that goes on after the
\* match, which ends in digits and hyphens.
C5_Witness ==
    /\ Returned
    /\ \E i \in {FirstRule(task_name)} :
         i # 0 /\ PatternList[i].match_type = full_match
    /\ Len(series) < Len(task_name)
    /\ \E n \in 1..(Len(series) - 3) :
         Slice(series, n, Len(series)) = <<"2", "0", "-", "3">>

\* C6: when the first matching rule is a static rule, the value returned is
\* the rule's own label, whatever was matched: "rz_dj_0420" gives "rz_dj",
\* and a task name first matched by the rt_bc rule gives "rt_bc".
C6_StaticLabel ==
    Returned =>
      /\ \A i \in {FirstRule(task_name)} :
         (i # 0 /\ PatternList[i].match_type = static)
           => /\ series = PatternList[i].pattern
              /\ PatternList[i].pattern = <<"r", "t", "_", "b", "c">> => series = <<"r", "t", "_", "b", "c">>
      /\ task_name = <<"r", "z", "_", "d", "j", "_", "0", "4", "2", "0">> => series = <<"r", "z", "_", "d", "j">>

\* C6 witness: "rz_dj_0420" was classified by the static rz_dj rule.
C6_Witness ==
    /\ task_name = <<"r", "z", "_", "d", "j", "_", "0", "4", "2", "0">>
    /\ series = <<"r", "z", "_", "d", "j">>
    /\ \E i \in {FirstRule(task_name)} :
         i # 0 /\ PatternList[i].match_type = static

\* C8: a task name whose first matching rule is the bare bc rule ("bc"
\* followed by an underscore) is classified as "bc".
C8_BareBcIsBc ==
    Returned =>
      \A i \in {FirstRule(task_name)} :
      (i # 0 /\ PatternList[i].pattern = <<"b", "c", "(", "?", "=", "_", ")">>)
        => series = <<"b", "c">>

----------------------------------------------------------------------------
(* Properties of group_tasks_by_series *)

Grouping == pc \in {"reading", "done"}

\* number of occurrences of x in the sequence s
RECURSIVE Count(_, _)
Count(s, x) ==
    IF s = <<>> THEN 0
    ELSE (IF Head(s) = x THEN 1 ELSE 0) + Count(Tail(s), x)

\* number of raw lines read so far that strip to t
RECURSIVE Occurrences(_, _)
Occurrences(ls, t) ==
    IF ls = <<>> THEN 0
    ELSE (IF strip(Head(ls)) = t THEN 1 ELSE 0) + Occurrences(Tail(ls), t)

\* task names read so far
TasksRead == {strip(lines[n]) : n \in DOMAIN lines} \ {<<>>}

\* C3 (amended): for a task name no rule matches, get_model_series returns
\* None, and group_tasks_by_series files the task under exactly the key
\* "Uncategorized"; no key is None or the empty string.
C3_GroupedAsUncategorized ==
    (Grouping /\ Returned) =>
      /\ None \notin DOMAIN task_groups
      /\ <<>> \notin DOMAIN task_groups
      /\ MatchSet(task_name) = {} =>
           /\ series = None
           /\ Uncategorized \in DOMAIN task_groups
           /\ LET g == task_groups[Uncategorized] IN g[Len(g)] = task_name

\* C3 witness: "totally_unrelated_name" has just been filed under
\* "Uncategorized".
C3_Witness ==
    /\ Grouping
    /\ task_name = <<"t", "o", "t", "a", "l", "l", "y", "_", "u", "n", "r", "e", "l", "a", "t", "e", "d", "_", "n", "a", "m", "e">>
    /\ MatchSet(task_name) = {}
    /\ Uncategorized \in DOMAIN task_groups
    /\ task_name \in {task_groups[Uncategorized][n] :
                        n \in DOMAIN task_groups[Uncategorized]}

KeyOf(t) ==
    CHOOSE key \in {IF first = 0 THEN Uncategorized ELSE CategoryOf(first, t) :
                      first \in {FirstRule(t)}} : TRUE

\* C9: the groups partition the non-blank lines read: each stripped
\* non-blank line is in the group of its category ("Uncategorized" when no
\* rule matched) once per occurrence in the input and in no other group,
\* blank lines are in no group, and no group is empty.
C9_GroupsPartitionLines ==
    Grouping =>
      /\ \A k \in DOMAIN task_groups :
           /\ task_groups[k] # <<>>
           /\ Count(task_groups[k], <<>>) = 0
           /\ \A n \in DOMAIN task_groups[k] : task_groups[k][n] \in TasksRead
      /\ \A t \in TasksRead :
           \A key \in {KeyOf(t)} :
           /\ key \in DOMAIN task_groups
           /\ \A k \in DOMAIN task_groups :
                Count(task_groups[k], t) =
                  IF k = key THEN Occurrences(lines, t) ELSE 0

\* C9 witness: a finished run over a file with a blank line, a padded line
\* and a repeated task, that left two groups, one of them "Uncategorized".
C9_Witness ==
    /\ pc = "done"
    /\ \E n \in DOMAIN lines : strip(lines[n]) = <<>>
    /\ \E n \in DOMAIN lines : lines[n][1] = " " /\ strip(lines[n]) # <<>>
    /\ \E t \in TasksRead : Occurrences(lines, t) = 2
    /\ Cardinality(DOMAIN task_groups) = 2
    /\ Uncategorized \in DOMAIN task_groups

----------------------------------------------------------------------------
(* Properties of format_log.main *)

\* the line is not blank and parse_log_line returns a record for it
ParsesOk(raw) == Truthy(strip(raw)) /\ parse_log_line(strip(raw)).parsed

\* the area-count maps of the lines of ls that parse, in order
RECURSIVE ParsedMaps(_)
ParsedMaps(ls) ==
    IF ls = <<>> THEN <<>>
    ELSE LET line == strip(Head(ls))
             data == parse_log_line(line)
         IN (IF Truthy(line) /\ data.parsed
             THEN <<data.areaCountMap>> ELSE <<>>)
            \o ParsedMaps(Tail(ls))

\* the cities of the maps
Cities(maps) == UNION {Keys(maps[n]) : n \in DOMAIN maps}

\* sum of the counts of city over the maps
RECURSIVE CitySumOf(_, _)
CitySumOf(maps, city) ==
    IF maps = <<>> THEN 0
    ELSE (IF city \in Keys(Head(maps))
          THEN int(Get(Head(maps), city)) ELSE 0)
         + CitySumOf(Tail(maps), city)

\* C10: after every iteration main completes, and at the end, city_sum has
\* exactly the cities of the maps of the parsed lines, each with the sum of
\* its counts over those maps, and all_tables one table per parsed line; an
\* iteration on a blank or unparsable line changes neither.
C10_CitySum ==
    [][log_pc' \in {"reading", "done"} =>
         \A maps \in {ParsedMaps(log_lines')} :
         /\ DOMAIN city_sum' = Cities(maps)
         /\ \A city \in DOMAIN city_sum' :
              city_sum'[city] = CitySumOf(maps, city)
         /\ Len(all_tables') = Len(maps)
         /\ (Len(log_lines') > Len(log_lines)
               /\ ~ParsesOk(log_lines'[Len(log_lines')]))
            => (city_sum' = city_sum /\ all_tables' = all_tables)]_vars

\* C10 witness: a finished run over two parsed lines that share a city and a
\* line that did not parse; the shared city has the sum of both counts.
C10_Witness ==
    /\ log_pc = "done"
    /\ Len(log_lines) = 3
    /\ Len(all_tables) = 2
    /\ \E n \in DOMAIN log_lines :
         Truthy(strip(log_lines[n])) /\ ~ParsesOk(log_lines[n])
    /\ <<"a">> \in DOMAIN city_sum
    /\ <<"b">> \in DOMAIN city_sum
    /\ city_sum[<<"a">>] = 5
    /\ city_sum[<<"b">>] = 2

====
